---- MODULE Spec2Model ----
(***************************************************************************)
(* Perlite vault normalizer: link resolution (normalizer/links.py),        *)
(* frontmatter split (normalizer/parse.py) and the metadata run            *)
(* (normalizer/indexer.py).                                                *)
(*                                                                         *)
(* A Python str is a sequence of one-character strings.  A filesystem      *)
(* path is a sequence of segments counted from "/"; the vault root is the  *)
(* directory /v.  A pathlib path is a record [abs, parts].                 *)
(***************************************************************************)
EXTENDS Integers, Sequences, FiniteSets, TLC

\* ------------------------------------------------------------------------
\* str
\* ------------------------------------------------------------------------

\* The characters of the model's texts, in code point order.
\* U+0060, the delimiter of code spans: a character no TLA+ string can hold
BackTick == "<backtick>"

AsciiOrder ==
  << "\n", " ", "!", "#", "(", ")", "-", ".", "/", ":",
     "A", "C", "D", "M", "N", "O", "R", "[", "]", BackTick,
     "a", "b", "d", "e", "g", "h", "k", "m", "n", "o", "p", "r", "s", "t",
     "v", "w", "x", "|" >>

Ord(c) == CHOOSE i \in 1..Len(AsciiOrder) : AsciiOrder[i] = c

\* str.lower(): the model's upper-case letters are note names only; the
\* extensions it reads are typed in lower case.
Lower(s) ==
  [i \in 1..Len(s) |->
     CASE s[i] = "A" -> "a" [] s[i] = "C" -> "c" [] s[i] = "D" -> "d" [] s[i] = "M" -> "m"
       [] s[i] = "N" -> "n" [] s[i] = "O" -> "o" [] s[i] = "R" -> "r"
       [] OTHER -> s[i]]

\* a < b for str (code point order, shorter prefix first)
RECURSIVE StrLess(_, _)
StrLess(a, b) ==
  IF b = <<>> THEN FALSE
  ELSE IF a = <<>> THEN TRUE
  ELSE IF a[1] # b[1] THEN Ord(a[1]) < Ord(b[1])
  ELSE StrLess(Tail(a), Tail(b))

\* a < b for lists of str (tuple / list comparison)
RECURSIVE ListLess(_, _)
ListLess(a, b) ==
  IF b = <<>> THEN FALSE
  ELSE IF a = <<>> THEN TRUE
  ELSE IF a[1] # b[1] THEN StrLess(a[1], b[1])
  ELSE ListLess(Tail(a), Tail(b))

\* c in s
Has(s, c) == \E i \in 1..Len(s) : s[i] = c

\* s.find(c), 1-based; 0 when absent
Find(s, c) ==
  IF \E i \in 1..Len(s) : s[i] = c
  THEN CHOOSE i \in 1..Len(s) : s[i] = c /\ \A j \in 1..(i - 1) : s[j] # c
  ELSE 0

\* s.rfind(c), 1-based; 0 when absent
RFind(s, c) ==
  IF \E i \in 1..Len(s) : s[i] = c
  THEN CHOOSE i \in 1..Len(s) : s[i] = c /\ \A j \in (i + 1)..Len(s) : s[j] # c
  ELSE 0

\* s.count(c)
Count(s, c) == Cardinality({ i \in 1..Len(s) : s[i] = c })

\* s.split(c, 1)[0] and s.split(c, 1)[1] where c is at index i of s; with
\* i = 0 (c not in s) the first is s, as the code keeps s, and the second empty
CutBefore(s, i) == IF i = 0 THEN s ELSE SubSeq(s, 1, i - 1)
CutAfter(s, i) == IF i = 0 THEN <<>> ELSE SubSeq(s, i + 1, Len(s))
Before(s, c) == CutBefore(s, Find(s, c))
After(s, c) == CutAfter(s, Find(s, c))

IsSpace(c) == c \in { " ", "\n" }

\* s.lstrip(), s.rstrip(), s.strip()
RECURSIVE LStrip(_)
LStrip(s) == IF s # <<>> /\ IsSpace(s[1]) THEN LStrip(Tail(s)) ELSE s
RECURSIVE RStrip(_)
RStrip(s) == IF s # <<>> /\ IsSpace(s[Len(s)]) THEN RStrip(SubSeq(s, 1, Len(s) - 1)) ELSE s
Strip(s) == RStrip(LStrip(s))

\* s.lstrip("/"), s.lstrip("#")
RECURSIVE LStripSlash(_)
LStripSlash(s) == IF s # <<>> /\ s[1] = "/" THEN LStripSlash(Tail(s)) ELSE s
RECURSIVE LStripHash(_)
LStripHash(s) == IF s # <<>> /\ s[1] = "#" THEN LStripHash(Tail(s)) ELSE s

\* s.startswith(p), s.endswith(p)
StartsWith(s, p) == Len(p) <= Len(s) /\ SubSeq(s, 1, Len(p)) = p
EndsWith(s, p) == Len(p) <= Len(s) /\ SubSeq(s, Len(s) - Len(p) + 1, Len(s)) = p

\* s.split(c): every piece, empty ones included
RECURSIVE SplitAll(_, _)
SplitAt(s, c, i) ==
  IF i = 0 THEN << s >>
  ELSE << SubSeq(s, 1, i - 1) >> \o SplitAll(SubSeq(s, i + 1, Len(s)), c)
SplitAll(s, c) == SplitAt(s, c, Find(s, c))

\* c.join(list)
RECURSIVE JoinWith(_, _)
JoinWith(list, c) ==
  IF list = <<>> THEN <<>>
  ELSE IF Len(list) = 1 THEN list[1]
  ELSE list[1] \o << c >> \o JoinWith(Tail(list), c)

\* list(dict.fromkeys(list)): first occurrences, in order
Dedup(list) ==
  LET first == { i \in 1..Len(list) : \A j \in 1..(i - 1) : list[j] # list[i] }
      nth(k) == CHOOSE i \in first : Cardinality({ j \in first : j <= i }) = k
  IN [k \in 1..Cardinality(first) |-> list[nth(k)]]

\* ------------------------------------------------------------------------
\* pathlib / os.path
\* ------------------------------------------------------------------------

DOT == << "." >>
DOTDOT == << ".", "." >>
DOT_MD == << ".", "m", "d" >>

MD_EXTS == { << ".", "m", "d" >>,
             << ".", "m", "a", "r", "k", "d", "o", "w", "n" >>,
             << ".", "m", "d", "o", "w", "n" >> }
IMG_EXTS == { << ".", "p", "n", "g" >>,
              << ".", "j", "p", "g" >>,
              << ".", "j", "p", "e", "g" >>,
              << ".", "g", "i", "f" >>,
              << ".", "w", "e", "b", "p" >>,
              << ".", "s", "v", "g" >>,
              << ".", "p", "d", "f" >> }
ASSET_EXTS == IMG_EXTS \cup
  { << ".", "m", "p", "4" >>,
    << ".", "m", "4", "a" >>,
    << ".", "w", "e", "b", "m" >>,
    << ".", "m", "o", "v" >>,
    << ".", "m", "p", "3" >>,
    << ".", "w", "a", "v" >>,
    << ".", "o", "g", "g" >> }

\* Path(s): the segments of s, without the empty ones and the "." ones
RECURSIVE DropDots(_)
DropDots(segs) ==
  IF segs = <<>> THEN <<>>
  ELSE IF segs[1] = <<>> \/ segs[1] = DOT THEN DropDots(Tail(segs))
  ELSE << segs[1] >> \o DropDots(Tail(segs))

PathOf(s) == [abs |-> s # <<>> /\ s[1] = "/", parts |-> DropDots(SplitAll(s, "/"))]

\* Path.as_posix() / str(Path)
AsPosix(p) ==
  IF ~p.abs /\ p.parts = <<>> THEN DOT
  ELSE (IF p.abs THEN << "/" >> ELSE <<>>) \o JoinWith(p.parts, "/")

\* Path.name
Name(p) == IF p.parts = <<>> THEN <<>> ELSE p.parts[Len(p.parts)]

\* Path.suffix: from the last dot of the name, unless the dot is first or last
SuffixFrom(name, i) == IF 1 < i /\ i < Len(name) THEN SubSeq(name, i, Len(name)) ELSE <<>>
SuffixOfName(name) == SuffixFrom(name, RFind(name, "."))
Suffix(p) == SuffixOfName(Name(p))

\* Path.stem
StemOfName(name) == SubSeq(name, 1, Len(name) - Len(SuffixOfName(name)))
Stem(p) == StemOfName(Name(p))

\* Path.with_suffix(""), for a path with a name
WithSuffixEmpty(p) == [p EXCEPT !.parts = SubSeq(p.parts, 1, Len(p.parts) - 1) \o << Stem(p) >>]

\* ------------------------------------------------------------------------
\* state
\* ------------------------------------------------------------------------

VARIABLES
  files,          \* the regular files of the filesystem (absolute paths)
  content,        \* the text of every note file of the vault
  shortest_mode,  \* the --shortest argument: "vault" or "relative"
  R,              \* the Resolver of the run: ALL_MD, BASENAME_INDEX
  all_md,         \* build_metadata's own enumeration of the notes
  items,          \* the MetadataItems built so far, in processing order
  log,            \* per processed file: its text before, its normalized body, whether written
  output,         \* the metadata document, once written
  pc,             \* where the run is
  initial,        \* the text of every note file before the first run
  earlier         \* the metadata of an earlier run on the same vault, << >> if none

vars == << files, content, shortest_mode, R, all_md, items, log, output, pc, initial, earlier >>

\* What an operator yields when the code raises (ValueError, IndexError).
RAISED == << "<raised>" >>
\* Python's None
None == << "<None>" >>

\* The vault root, /v
ROOT == << << "v" >> >>

\* ------------------------------------------------------------------------
\* filesystem
\* ------------------------------------------------------------------------

\* Path.parent of an absolute path
Parent(path) == IF path = <<>> THEN <<>> ELSE SubSeq(path, 1, Len(path) - 1)

\* the directories: every proper prefix of a file's path
Dirs == UNION { { SubSeq(f, 1, n) : n \in 0..(Len(f) - 1) } : f \in files }

\* os.stat succeeds: the walk from "/" through the segments, ".." included
RECURSIVE Walk(_, _)
Walk(cur, rest) ==
  IF rest = <<>> THEN cur \in files \/ cur \in Dirs
  ELSE /\ cur \in Dirs
       /\ Walk(IF rest[1] = DOTDOT THEN Parent(cur) ELSE Append(cur, rest[1]), Tail(rest))

\* Path.exists() of an absolute path
Exists(path) == Walk(<<>>, path)

\* Path.resolve() / os.path.abspath of an absolute path: ".." folded
RECURSIVE Fold(_, _)
Fold(done, rest) ==
  IF rest = <<>> THEN done
  ELSE Fold(IF rest[1] = DOTDOT THEN Parent(done) ELSE Append(done, rest[1]), Tail(rest))
Resolve(path) == Fold(<<>>, path)

\* the length of the longest common prefix of two absolute paths
RECURSIVE Common(_, _)
Common(a, b) ==
  IF a = <<>> \/ b = <<>> \/ a[1] # b[1] THEN 0 ELSE 1 + Common(Tail(a), Tail(b))

\* os.path.relpath(path, start)
RelJoin(rel) == IF rel = <<>> THEN DOT ELSE JoinWith(rel, "/")
RelCut(t, s, c) == RelJoin([i \in 1..(Len(s) - c) |-> DOTDOT] \o SubSeq(t, c + 1, Len(t)))
RelFrom(t, s) == RelCut(t, s, Common(t, s))
RelPath(path, start) == RelFrom(Resolve(path), Resolve(start))

\* is_md(p)
is_md(path) == Lower(SuffixOfName(path[Len(path)])) \in MD_EXTS

\* strip_md_ext(path_str)
StripExt(p) == AsPosix(IF Lower(Suffix(p)) \in MD_EXTS THEN WithSuffixEmpty(p) ELSE p)
strip_md_ext(path_str) == StripExt(PathOf(path_str))

\* to_rel(base, abs_file)
to_rel(base, abs_file) == RelPath(abs_file, base)

\* the files below ROOT: what ROOT.rglob("*") can yield with is_file()
UnderRoot == { f \in files : Len(f) > Len(ROOT) /\ SubSeq(f, 1, Len(ROOT)) = ROOT }

\* every enumeration of a finite set
RECURSIVE Perms(_)
Perms(S) ==
  IF S = {} THEN { <<>> }
  ELSE UNION { { << x >> \o q : q \in Perms(S \ {x}) } : x \in S }

\* sorted(S) for a set of paths
RECURSIVE SortedPaths(_)
SortedFrom(S, m) == << m >> \o SortedPaths(S \ {m})
SortedPaths(S) ==
  IF S = {} THEN <<>>
  ELSE SortedFrom(S, CHOOSE x \in S : \A y \in S \ {x} : ListLess(x, y))

\* The orders in which root.rglob("*") can yield the notes: a directory's own
\* entries in the order the filesystem lists them, then each subdirectory in
\* that order.  The order of a listing is the filesystem's choice.
RECURSIVE RGlobOrders(_)
RECURSIVE RGlobSubdirs(_)
RGlobOrders(d) ==
  UNION { { here \o below : below \in RGlobSubdirs(order) } :
          here \in Perms({ f \in UnderRoot : Parent(f) = d /\ is_md(f) }),
          order \in Perms({ s \in Dirs : Len(s) > 0 /\ Parent(s) = d }) }
RGlobSubdirs(order) ==
  IF order = <<>> THEN { <<>> }
  ELSE { first \o rest : first \in RGlobOrders(order[1]), rest \in RGlobSubdirs(Tail(order)) }

\* ------------------------------------------------------------------------
\* Resolver (links.py)
\* ------------------------------------------------------------------------

\* Resolver.__init__: BASENAME_INDEX of the sorted note list; each note is
\* appended under its name and then under its stem
RECURSIVE IndexList(_, _)
IndexList(notes, key) ==
  IF notes = <<>> THEN <<>>
  ELSE (IF notes[1][Len(notes[1])] = key THEN << notes[1] >> ELSE <<>>)
       \o (IF StemOfName(notes[1][Len(notes[1])]) = key THEN << notes[1] >> ELSE <<>>)
       \o IndexList(Tail(notes), key)

IndexOf(notes) ==
  [ALL_MD |-> notes,
   BASENAME_INDEX |->
     [k \in { notes[i][Len(notes[i])] : i \in 1..Len(notes) }
              \cup { StemOfName(notes[i][Len(notes[i])]) : i \in 1..Len(notes) }
        |-> IndexList(notes, k)]]

NewResolver == IndexOf(SortedPaths({ f \in UnderRoot : is_md(f) }))

\* BASENAME_INDEX.get(key, [])
IndexGet(key) == IF key \in DOMAIN R.BASENAME_INDEX THEN R.BASENAME_INDEX[key] ELSE <<>>

\* Resolver.rel_from_root: Path.relative_to(ROOT) raises off the root
rel_from_root(path) ==
  IF Len(path) >= Len(ROOT) /\ SubSeq(path, 1, Len(ROOT)) = ROOT
  THEN AsPosix([abs |-> FALSE, parts |-> SubSeq(path, Len(ROOT) + 1, Len(path))])
  ELSE RAISED

\* Resolver._collect_conflicts
collect_conflicts(stem_or_name) ==
  Dedup(IndexGet(stem_or_name) \o IndexGet(StemOfName(Name(PathOf(stem_or_name)))))

\* Resolver.find_target_path, lines 73-80: the basename index, else the text as typed
FindUniq(candidate, uniq) ==
  IF Len(uniq) = 1 THEN strip_md_ext(rel_from_root(uniq[1]))
  ELSE strip_md_ext(AsPosix(candidate))
FindByName(candidate, bn) ==
  FindUniq(candidate, Dedup(IndexGet(bn) \o IndexGet(strip_md_ext(bn))))

\* Resolver.find_target_path, lines 69-72: the path from the note's directory
StripRel(rel) == IF rel = RAISED THEN RAISED ELSE strip_md_ext(rel)
FindAt(candidate, abs_path) ==
  IF Exists(abs_path) THEN StripRel(rel_from_root(abs_path))
  ELSE FindByName(candidate, Name(candidate))
FindCandidate(current_file, candidate) ==
  FindAt(candidate, Resolve(Parent(current_file) \o candidate.parts))

\* Resolver.find_target_path, lines 65-67
Candidate(typed) == IF typed.abs THEN PathOf(LStripSlash(AsPosix(typed))) ELSE typed

\* Resolver.find_target_path, lines 82-84
WithAnchor(out, anchor) ==
  IF out = RAISED THEN RAISED
  ELSE IF anchor # <<>> THEN out \o << "#" >> \o anchor
  ELSE out

\* Resolver.find_target_path, lines 61-84
FindStripped(current_file, raw, anchor) ==
  IF raw = <<>> THEN (IF anchor # <<>> THEN << "#" >> \o anchor ELSE <<>>)
  ELSE WithAnchor(FindCandidate(current_file, Candidate(PathOf(raw))), anchor)

\* Resolver.find_target_path
find_target_path(current_file, raw) ==
  FindStripped(current_file, Strip(Before(raw, "#")), After(raw, "#"))

\* the sort key of a candidate suffix: (s.count('/') + 1, len(s))
SuffixBefore(a, b) ==
  \/ Count(a, "/") < Count(b, "/")
  \/ Count(a, "/") = Count(b, "/") /\ Len(a) < Len(b)

\* candidates.sort(key=...), line 105: a stable sort by the key
SortSuffixes(list) ==
  LET place(i) == 1 + Cardinality({ j \in 1..Len(list) :
                       \/ SuffixBefore(list[j], list[i])
                       \/ ~SuffixBefore(list[i], list[j]) /\ j < i })
  IN [k \in 1..Len(list) |-> list[CHOOSE i \in 1..Len(list) : place(i) = k]]

\* unique(sfx) of _shortest_suffix_from_vault, lines 95-97
Unique(sfx, target_abs_no_ext, conflict_noext) ==
  { c \in conflict_noext : EndsWith(c, << "/" >> \o sfx) \/ c = sfx } = { target_abs_no_ext }

\* lines 102-105: the suffixes of 2, 3, ... segments, sorted
Candidates(parts) ==
  SortSuffixes([i \in 1..(Len(parts) - 1) |->
                  AsPosix(PathOf(JoinWith(SubSeq(parts, Len(parts) - i, Len(parts)), "/")))])

\* lines 107-112: the first unique candidate, else the target itself
FirstUnique(target_abs_no_ext, candidates, hits) ==
  IF candidates = <<>> THEN RAISED
  ELSE IF hits # {} THEN candidates[CHOOSE i \in hits : \A j \in hits : i <= j]
  ELSE target_abs_no_ext
PickSuffix(target_abs_no_ext, candidates, conflict_noext) ==
  FirstUnique(target_abs_no_ext, candidates,
              { i \in 1..Len(candidates) : Unique(candidates[i], target_abs_no_ext, conflict_noext) })

\* line 93
ConflictNoExt(conflicts) ==
  { strip_md_ext(rel_from_root(conflicts[i])) : i \in 1..Len(conflicts) }

\* Path.parts
Parts(p) == (IF p.abs THEN << << "/" >> >> ELSE <<>>) \o p.parts

SuffixOfParts(target_abs_no_ext, parts, stem) ==
  IF Len(parts) = 1 THEN stem
  ELSE PickSuffix(target_abs_no_ext, Candidates(parts), ConflictNoExt(collect_conflicts(stem)))
SuffixOfPath(target_abs_no_ext, target_path) ==
  SuffixOfParts(target_abs_no_ext, Parts(target_path), Name(target_path))

\* Resolver._shortest_suffix_from_vault
shortest_suffix_from_vault(target_abs_no_ext) ==
  SuffixOfPath(target_abs_no_ext, PathOf(target_abs_no_ext))

\* lines 117-121: with_suffix("") raises on an empty name, and the target is kept
RelativeOf(target_abs_no_ext, rel) ==
  IF Name(rel) = <<>> THEN AsPosix(PathOf(target_abs_no_ext))
  ELSE AsPosix(WithSuffixEmpty(rel))

\* Resolver._shortest_relative_from_current
shortest_relative_from_current(current_file, target_abs_no_ext) ==
  RelativeOf(target_abs_no_ext,
             PathOf(to_rel(Parent(current_file),
                           ROOT \o PathOf(target_abs_no_ext \o DOT_MD).parts)))

\* a text target that leaves the anchor out
ResolveShortestNoAnchor(anchor, abs_no_ext_clean, shortest) ==
  IF shortest = RAISED THEN RAISED
  ELSE << shortest, abs_no_ext_clean \o DOT_MD >>

\* Resolver.resolve_target_for_text_and_meta, lines 146-148
ResolveShortest(anchor, abs_no_ext_clean, shortest) ==
  IF shortest = RAISED THEN RAISED
  ELSE << (IF anchor # <<>> THEN shortest \o << "#" >> \o anchor ELSE shortest),
          abs_no_ext_clean \o DOT_MD >>

\* lines 141-144
ResolveClean(current_file, anchor, abs_no_ext_clean) ==
  ResolveShortest(anchor, abs_no_ext_clean,
                  IF shortest_mode = "relative"
                  THEN shortest_relative_from_current(current_file, abs_no_ext_clean)
                  ELSE shortest_suffix_from_vault(abs_no_ext_clean))

\* lines 138-139
ResolveFound(current_file, anchor, abs_no_ext) ==
  IF abs_no_ext = RAISED THEN RAISED
  ELSE ResolveClean(current_file, anchor, Before(abs_no_ext, "#"))

\* lines 134-138
ResolveStripped(current_file, raw, anchor, target) ==
  IF target = <<>> THEN << raw, None >>
  ELSE ResolveFound(current_file, anchor, find_target_path(current_file, target))

\* lines 130-132
ResolveTarget(current_file, raw, target) ==
  ResolveStripped(current_file, raw, After(target, "#"), Strip(Before(target, "#")))

\* Resolver.resolve_target_for_text_and_meta: <<text_target, meta_with_md>>
resolve_target_for_text_and_meta(current_file, raw) ==
  ResolveTarget(current_file, raw, Before(raw, "|"))

\* rank(p) of resolve_asset_for_text: (same_dir, len(rel), rel)
AssetKey(same_dir, rel) == << same_dir, Len(rel), rel >>
rank(base, p) ==
  AssetKey(IF Resolve(Parent(p)) = Resolve(base) THEN 0 ELSE 1, to_rel(base, p))
KeyLess(a, b) ==
  \/ a[1] < b[1]
  \/ a[1] = b[1] /\ a[2] < b[2]
  \/ a[1] = b[1] /\ a[2] = b[2] /\ StrLess(a[3], b[3])

\* a path that is never given the "./" prefix
DotSlashNever(rel) == rel

\* lines 206-209
DotSlash(rel) ==
  IF ~StartsWith(rel, << ".", "/" >>) /\ ~StartsWith(rel, << ".", ".", "/" >>)
     /\ Has(rel, "/") /\ ~StartsWith(rel, << "/" >>)
  THEN << ".", "/" >> \o rel
  ELSE rel

\* lines 189-204
BestAsset(base, name, candidates) ==
  IF candidates = {} THEN name
  ELSE DotSlash(to_rel(base, CHOOSE p \in candidates :
                               \A q \in candidates \ {p} : KeyLess(rank(base, p), rank(base, q))))

\* lines 177-187: ROOT.rglob(name), or ROOT.rglob(name + ext) for every asset extension
AssetNamed(base, name) ==
  BestAsset(base, name,
            IF Has(name, ".")
            THEN { f \in UnderRoot : f[Len(f)] = name }
            ELSE { f \in UnderRoot : \E ext \in ASSET_EXTS : f[Len(f)] = name \o ext })

AssetTarget(raw, base, target) ==
  IF target = <<>> THEN raw ELSE AssetNamed(base, Name(PathOf(target)))

\* Resolver.resolve_asset_for_text
resolve_asset_for_text(current_file, raw) ==
  AssetTarget(raw, Parent(current_file), Strip(Before(raw, "|")))

\* ------------------------------------------------------------------------
\* the two link patterns
\* ------------------------------------------------------------------------

NoMatch == [ok |-> FALSE]

\* the first index >= from where text holds c; 0 when there is none
FirstFrom(text, c, from) ==
  IF \E j \in from..Len(text) : text[j] = c
  THEN CHOOSE j \in from..Len(text) : text[j] = c /\ \A k \in from..(j - 1) : text[k] # c
  ELSE 0

\* MD_LINK = (!?)\[(?P<text>[^\]]*)\]\((?P<url>[^)]+)\) matched at index i:
\* "[" at k, the first "]" at e, "(" next, the first ")" at f
MdUrl(text, i, k, e, f) ==
  IF f > e + 2
  THEN [ok |-> TRUE, bang |-> SubSeq(text, i, k - 1), text |-> SubSeq(text, k + 1, e - 1),
        url |-> SubSeq(text, e + 2, f - 1), all |-> SubSeq(text, i, f), end |-> f]
  ELSE NoMatch
MdText(text, i, k, e) ==
  IF e # 0 /\ e + 1 <= Len(text) /\ text[e + 1] = "("
  THEN MdUrl(text, i, k, e, FirstFrom(text, ")", e + 2))
  ELSE NoMatch
MdOpen(text, i, k) ==
  IF k <= Len(text) /\ text[k] = "[" THEN MdText(text, i, k, FirstFrom(text, "]", k + 1))
  ELSE NoMatch
MdMatchAt(text, i) == MdOpen(text, i, IF text[i] = "!" THEN i + 1 ELSE i)

\* WIKI_LINK = (?P<bang>!?)\[\[(?P<body>.+?)\]\] matched at index i: "[[" at
\* k, then the nearest "]]" after a body of one character or more, all on one line
WikiBody(text, i, k, ends) ==
  IF ends # {}
  THEN [ok |-> TRUE, bang |-> SubSeq(text, i, k - 1),
        body |-> SubSeq(text, k + 2, (CHOOSE x \in ends : \A y \in ends : x <= y) - 1),
        all |-> SubSeq(text, i, (CHOOSE x \in ends : \A y \in ends : x <= y) + 1),
        end |-> (CHOOSE x \in ends : \A y \in ends : x <= y) + 1]
  ELSE NoMatch
WikiOpen(text, i, k) ==
  IF k + 1 <= Len(text) /\ text[k] = "[" /\ text[k + 1] = "["
  THEN WikiBody(text, i, k,
                { e \in (k + 3)..(Len(text) - 1) :
                    /\ text[e] = "]" /\ text[e + 1] = "]"
                    /\ \A j \in (k + 2)..(e - 1) : text[j] # "\n" })
  ELSE NoMatch
WikiMatchAt(text, i) == WikiOpen(text, i, IF text[i] = "!" THEN i + 1 ELSE i)

\* MD_LINK.finditer(text) / WIKI_LINK.finditer(text): the matches from index
\* i on, left to right, none overlapping
RECURSIVE MdFindIter(_, _)
MdFound(text, i, m) ==
  IF m.ok THEN << m >> \o MdFindIter(text, m.end + 1) ELSE MdFindIter(text, i + 1)
MdFindIter(text, i) == IF i > Len(text) THEN <<>> ELSE MdFound(text, i, MdMatchAt(text, i))

RECURSIVE WikiFindIter(_, _)
WikiFound(text, i, m) ==
  IF m.ok THEN << m >> \o WikiFindIter(text, m.end + 1) ELSE WikiFindIter(text, i + 1)
WikiFindIter(text, i) == IF i > Len(text) THEN <<>> ELSE WikiFound(text, i, WikiMatchAt(text, i))

\* ------------------------------------------------------------------------
\* the normalization passes (links.py)
\* ------------------------------------------------------------------------

Letters == { "A", "C", "D", "M", "N", "O", "R",
             "a", "b", "d", "e", "g", "h", "k", "m", "n", "o", "p", "r", "s", "t",
             "v", "w", "x" }

\* a scheme test that asks for "://" after the scheme
HasSchemeSlashes(url) ==
  \/ StartsWith(url, << "/", "/" >>)
  \/ /\ url # <<>> /\ url[1] \in Letters
     /\ Has(url, ":")
     /\ \A j \in 2..(Find(url, ":") - 1) : url[j] \in Letters \cup { "+", ".", "-" }
     /\ StartsWith(After(url, ":"), << "/", "/" >>)

\* re.match(r'^(?:[a-zA-Z][a-zA-Z0-9+.-]*:|//)', url)
HasScheme(url) ==
  \/ StartsWith(url, << "/", "/" >>)
  \/ /\ url # <<>> /\ url[1] \in Letters
     /\ Has(url, ":")
     /\ \A j \in 2..(Find(url, ":") - 1) : url[j] \in Letters \cup { "+", ".", "-" }

\* a replacement and the text after it; an exception passes through
Cat(here, rest) == IF here = RAISED \/ rest = RAISED THEN RAISED ELSE here \o rest

\* repl of normalize_md_links_to_wikilinks, lines 226-233
MdTarget(current_file, m, url, target) ==
  IF target = RAISED THEN RAISED
  ELSE IF m.bang = << "!" >> \/ Lower(Suffix(PathOf(url))) \in IMG_EXTS
          \/ Lower(Suffix(PathOf(url))) \in ASSET_EXTS
       THEN << "!", "[", "[" >> \o resolve_asset_for_text(current_file, url) \o << "]", "]" >>
  ELSE << "[", "[" >> \o target \o << "]", "]" >>

\* lines 218-226
MdUrlRepl(current_file, m, url) ==
  IF StartsWith(url, << "#" >>) THEN m.all
  ELSE IF HasScheme(url) THEN m.all
  ELSE MdTarget(current_file, m, url, find_target_path(current_file, url))

\* repl of normalize_md_links_to_wikilinks, for one match
MdRepl(current_file, m) == MdUrlRepl(current_file, m, Strip(m.url))

\* repl of normalize_wikilinks_in_text, lines 252-255; tail is "|alias" or empty
WikiNote(m, tail, res) ==
  IF res = RAISED THEN RAISED
  ELSE IF res[1] = <<>> \/ Strip(res[1]) = Strip(m.body) THEN m.all
  ELSE << "[", "[" >> \o res[1] \o tail \o << "]", "]" >>

\* lines 248-252
WikiAlias(current_file, m, target_part, tail) ==
  IF m.bang = << "!" >>
  THEN << "!", "[", "[" >> \o resolve_asset_for_text(current_file, target_part)
         \o tail \o << "]", "]" >>
  ELSE WikiNote(m, tail, resolve_target_for_text_and_meta(current_file, m.body))

\* repl of normalize_wikilinks_in_text, for one match
WikiRepl(current_file, m) ==
  WikiAlias(current_file, m, Before(m.body, "|"),
            IF Has(m.body, "|") THEN << "|" >> \o After(m.body, "|") ELSE <<>>)

\* MD_LINK.sub(repl, text) from index i on
RECURSIVE MdSub(_, _, _)
MdStep(current_file, text, i, m) ==
  IF m.ok THEN Cat(MdRepl(current_file, m), MdSub(current_file, text, m.end + 1))
  ELSE Cat(<< text[i] >>, MdSub(current_file, text, i + 1))
MdSub(current_file, text, i) ==
  IF i > Len(text) THEN <<>> ELSE MdStep(current_file, text, i, MdMatchAt(text, i))

\* WIKI_LINK.sub(repl, text) from index i on
RECURSIVE WikiSub(_, _, _)
WikiStep(current_file, text, i, m) ==
  IF m.ok THEN Cat(WikiRepl(current_file, m), WikiSub(current_file, text, m.end + 1))
  ELSE Cat(<< text[i] >>, WikiSub(current_file, text, i + 1))
WikiSub(current_file, text, i) ==
  IF i > Len(text) THEN <<>> ELSE WikiStep(current_file, text, i, WikiMatchAt(text, i))

\* Resolver.normalize_md_links_to_wikilinks
normalize_md_links_to_wikilinks(current_file, text) == MdSub(current_file, text, 1)

\* Resolver.normalize_wikilinks_in_text
normalize_wikilinks_in_text(current_file, text) == WikiSub(current_file, text, 1)

\* ------------------------------------------------------------------------
\* frontmatter split (parse.py)
\* ------------------------------------------------------------------------

\* str.splitlines(): the pieces between line breaks; a final break opens no line
DropLast(pieces) ==
  IF pieces[Len(pieces)] = <<>> THEN SubSeq(pieces, 1, Len(pieces) - 1) ELSE pieces
splitlines(text) == DropLast(SplitAll(text, "\n"))

\* FM_START.match(line), FM_END.match(line)
FM_START(line) == Strip(line) = << "-", "-", "-" >>
FM_END(line) == Strip(line) \in { << "-", "-", "-" >>, << ".", ".", "." >> }

\* body_start of parse_frontmatter_and_tags, lines 51-58: the number of lines
\* of the frontmatter block, 0 when the text opens no block or never closes it
BodyStart(lines) ==
  IF lines # <<>> /\ FM_START(lines[1]) /\ \E j \in 2..Len(lines) : FM_END(lines[j])
  THEN CHOOSE j \in 2..Len(lines) : FM_END(lines[j]) /\ \A k \in 2..(j - 1) : ~FM_END(lines[k])
  ELSE 0
body_start(text) == BodyStart(splitlines(text))

\* the body returned by parse_frontmatter_and_tags, line 78
BodyFrom(text, lines, start) ==
  IF start # 0 THEN JoinWith(SubSeq(lines, start + 1, Len(lines)), "\n") ELSE text
BodyOfLines(text, lines) == BodyFrom(text, lines, BodyStart(lines))
body_of(text) == BodyOfLines(text, splitlines(text))

\* ------------------------------------------------------------------------
\* process_file (indexer.py)
\* ------------------------------------------------------------------------

\* the two passes of process_file, lines 19-20
Stage2(p, stage1) == IF stage1 = RAISED THEN RAISED ELSE normalize_wikilinks_in_text(p, stage1)
normalize(p, body0) == Stage2(p, normalize_md_links_to_wikilinks(p, body0))

\* the text process_file writes, lines 23-27: body0 is the original itself
\* exactly when parse found no frontmatter block
Rewrite(original, body0, norm) ==
  IF body_start(original) # 0
  THEN SubSeq(original, 1, Len(original) - Len(body0)) \o norm
  ELSE norm
new_text(original, norm) == Rewrite(original, body_of(original), norm)

\* a wikilink match at which resolve_target_for_text_and_meta raises, line 44
WikiEntryRaises(p, m) ==
  m.bang # << "!" >> /\ resolve_target_for_text_and_meta(p, m.body) = RAISED

\* the entry of one wikilink match, lines 45-68: << >> when it is skipped
EntryOf(target_part, display, meta) ==
  IF meta = None \/ meta = <<>> THEN <<>>
  ELSE IF ~Exists(ROOT \o PathOf(meta).parts) THEN <<>>
  ELSE IF Has(target_part, "#")
       THEN << [link |-> << "#" >> \o After(target_part, "#"), relativePath |-> meta,
                cleanLink |-> Stem(PathOf(meta)), displayText |-> display] >>
  ELSE << [link |-> Name(PathOf(target_part)), relativePath |-> meta,
           cleanLink |-> None, displayText |-> display] >>

\* display of lines 39-42 and 58: None unless an alias is typed and not empty
Display(alias) == IF alias # <<>> THEN alias ELSE None

\* the entry of one wikilink match, lines 35-68
WikiEntry(p, m) ==
  IF m.bang = << "!" >> THEN <<>>
  ELSE EntryOf(Before(m.body, "|"), Display(After(m.body, "|")),
               resolve_target_for_text_and_meta(p, m.body)[2])

\* the entry of one Markdown link match, lines 71-81
AnchorOf(rel, url, text) ==
  IF StartsWith(url, << "#" >>)
  THEN << [link |-> url, relativePath |-> rel, cleanLink |-> Stem(PathOf(rel)),
           displayText |-> IF text # <<>> THEN text ELSE LStripHash(url)] >>
  ELSE <<>>
AnchorEntry(rel, m) == AnchorOf(rel, Strip(m.url), Strip(m.text))

\* the entries of the matches, in order
RECURSIVE WikiEntries(_, _)
WikiEntries(p, ms) ==
  IF ms = <<>> THEN <<>> ELSE WikiEntry(p, ms[1]) \o WikiEntries(p, Tail(ms))

RECURSIVE AnchorEntries(_, _)
AnchorEntries(rel, ms) ==
  IF ms = <<>> THEN <<>> ELSE AnchorEntry(rel, ms[1]) \o AnchorEntries(rel, Tail(ms))

\* lines 83-89: the first entry of every (link, relativePath, displayText)
SameKey(L, K) ==
  L.link = K.link /\ L.relativePath = K.relativePath /\ L.displayText = K.displayText
UniqLinksAll(links) == links
UniqLinks(links) ==
  LET first == { i \in 1..Len(links) : \A j \in 1..(i - 1) : ~SameKey(links[j], links[i]) }
      nth(k) == CHOOSE i \in first : Cardinality({ j \in first : j <= i }) = k
  IN [k \in 1..Cardinality(first) |-> links[nth(k)]]

\* the link collection of process_file raises, lines 34-44
AnyRaises(p, ms) == \E i \in 1..Len(ms) : WikiEntryRaises(p, ms[i])
links_raise(p, norm) == AnyRaises(p, WikiFindIter(norm, 1))

\* the links of process_file, lines 32-89
links_of(p, norm) ==
  UniqLinks(WikiEntries(p, WikiFindIter(norm, 1))
            \o AnchorEntries(rel_from_root(p), MdFindIter(norm, 1)))

\* the item of process_file, lines 91-97; no backlinks yet
item_of(p, links) ==
  [fileName |-> StemOfName(p[Len(p)]), relativePath |-> rel_from_root(p),
   links |-> links, backlinks |-> <<>>]

\* ------------------------------------------------------------------------
\* build_metadata (indexer.py)
\* ------------------------------------------------------------------------

\* forward.get(target, []): the linking item once per link entry, lines 107-110
RECURSIVE Sources(_, _)
Sources(its, target) ==
  IF its = <<>> THEN <<>>
  ELSE [k \in 1..Cardinality({ i \in 1..Len(its[1].links) : its[1].links[i].relativePath = target })
          |-> its[1].relativePath]
       \o Sources(Tail(its), target)

\* lines 112-124: the backlinks of one item
Backlinks(this_name, srcs) ==
  [k \in 1..Len(srcs) |->
     [fileName |-> Stem(PathOf(srcs[k])), link |-> this_name,
      relativePath |-> srcs[k], displayText |-> this_name]]

with_backlinks(its) ==
  [n \in 1..Len(its) |->
     [its[n] EXCEPT !.backlinks =
        Backlinks(Stem(PathOf(its[n].relativePath)), Sources(its, its[n].relativePath))]]

\* ------------------------------------------------------------------------
\* vaults
\* ------------------------------------------------------------------------

\* the most links typed into the body of the note under edit
MaxLinks == 2

md(stem) == stem \o DOT_MD
InRoot(name) == ROOT \o << name >>
InDir(dir, name) == ROOT \o << dir, name >>

R_md == InRoot(md(<< "R" >>))
N_md == InRoot(md(<< "N" >>))
g_png == << "g", ".", "p", "n", "g" >>

\* typed links
Wiki(target) == << "[", "[" >> \o target \o << "]", "]" >>
Embed(target) == << "!" >> \o Wiki(target)
MdLink(url) == << "[", "t", "]", "(" >> \o url \o << ")" >>

\* A vault: its files, the notes under edit, what can be typed into them, and
\* the text of the other notes.
Flat ==
  [files |-> { R_md, N_md, InDir(<< "s" >>, md(<< "A" >>)), InDir(<< "s" >>, g_png), InRoot(g_png) },
   edited |-> { R_md, InDir(<< "s" >>, md(<< "A" >>)) },
   typed |-> { MdLink(<< "N", ".", "m", "d" >>), Wiki(<< "M" >>), Wiki(<< "N", "#", "h", "|", "t" >>),
               Embed(<< "g" >>), MdLink(<< "#", "h" >>) },
   other |-> Wiki(<< "R" >>)]

Ambiguous ==
  [files |-> { R_md, N_md, InDir(<< "a" >>, md(<< "N" >>)) },
   edited |-> { R_md, InDir(<< "a" >>, md(<< "N" >>)) },
   typed |-> { Wiki(<< "N" >>), Wiki(<< "a", "/", "N" >>), Wiki(<< "a", "/", ".", ".", "/", "N" >>),
               MdLink(<< "a", "/", "N", ".", "m", "d" >>) },
   other |-> << "t" >>]

Deep ==
  [files |-> { R_md, ROOT \o << << "x" >>, << "a" >>, md(<< "N" >>) >>, InDir(<< "b" >>, md(<< "N" >>)) },
   edited |-> { R_md },
   typed |-> { MdLink(<< "x", "/", "a", "/", "N", ".", "m", "d" >>), Wiki(<< "b", "/", "N" >>),
               Wiki(<< "N", "#", "h" >>) },
   other |-> << "t" >>]

OtherExt ==
  [files |-> { R_md, InDir(<< "s" >>, << "C", ".", "m", "a", "r", "k", "d", "o", "w", "n" >>) },
   edited |-> { R_md },
   typed |-> { Wiki(<< "C" >>), MdLink(<< "s", "/", "C", ".", "m", "a", "r", "k", "d", "o", "w", "n" >>),
               Wiki(<< ".", "." >>) },
   other |-> Wiki(<< "R" >>)]

Folder ==
  [files |-> { R_md, InDir(md(<< "D" >>), md(<< "N" >>)) },
   edited |-> { R_md },
   typed |-> { Wiki(<< "D" >>), Wiki(<< "N" >>), Embed(<< "g", ".", "p", "n", "g" >>) },
   other |-> << "t" >>]

\* links with a scheme, a link in a code span, an alias that holds a bar
Schemes ==
  [files |-> { R_md, InDir(<< "s" >>, md(<< "N" >>)) },
   edited |-> { R_md },
   typed |-> { MdLink(<< "h", ":", "N", ".", "m", "d" >>), MdLink(<< "h", ":", "/", "/", "N" >>),
               MdLink(<< "/", "/", "N" >>), << BackTick >> \o Wiki(<< "N" >>) \o << BackTick >>,
               Wiki(<< "N", "#", " ", "h", "|", "t", "|", "a" >>),
               MdLink(<< "s", "/", "N", ".", "m", "d" >>) },
   other |-> << "t" >>]

k_png == << "k", ".", "p", "n", "g" >>

\* attachments of one name in several directories
Assets ==
  [files |-> { R_md, InDir(<< "s" >>, md(<< "A" >>)), InDir(<< "a" >>, g_png),
               InDir(<< "b", "b" >>, g_png), ROOT \o << << "s" >>, << "t" >>, k_png >>, InRoot(k_png) },
   edited |-> { R_md, InDir(<< "s" >>, md(<< "A" >>)) },
   typed |-> { Embed(<< "g" >>), Embed(<< "k" >>), << "!" >> \o MdLink(<< "x", "/" >> \o k_png),
               MdLink(g_png) },
   other |-> << "t" >>]

\* notes of one name, some below directories of one name
Nested ==
  [files |-> { R_md, ROOT \o << << "x" >>, << "a" >>, md(<< "N" >>) >>,
               ROOT \o << << "b" >>, << "a" >>, md(<< "N" >>) >>, InDir(<< "a" >>, md(<< "N" >>)) },
   edited |-> { R_md },
   typed |-> { Wiki(<< "N" >>), MdLink(<< "b", "/", "a", "/", "N", ".", "m", "d" >>) },
   other |-> << "t" >>]

\* two notes of one directory and one stem, with different note extensions
Twins ==
  [files |-> { R_md, ROOT \o << << "x" >>, << "a" >>, md(<< "N" >>) >>,
               ROOT \o << << "x" >>, << "a" >>, << "N", ".", "m", "a", "r", "k", "d", "o", "w", "n" >> >> },
   edited |-> { R_md },
   typed |-> { MdLink(<< "x", "/", "a", "/", "N", ".", "m", "d" >>), Wiki(<< "N" >>) },
   other |-> << "t" >>]

Vaults == { Flat, Ambiguous, Deep, OtherExt, Folder, Schemes, Assets, Nested, Twins }

\* the texts of at most n typed links
RECURSIVE Typings(_, _)
Typings(typed, n) ==
  IF n = 0 THEN { << "t" >> }
  ELSE Typings(typed, n - 1)
         \cup { body \o << " " >> \o link : body \in Typings(typed, n - 1), link \in typed }

\* a note as typed: the body alone, after a frontmatter block, and with the
\* final line break editors add
FrontMatter == << "-", "-", "-", "\n", "k", ":", " ", "v", "\n", "-", "-", "-", "\n" >>
Envelopes(body) == { body, FrontMatter \o body, FrontMatter \o body \o << "\n" >> }

NoResolver == [ALL_MD |-> <<>>, BASENAME_INDEX |-> <<>>]

Init ==
  \E V \in Vaults :
    \E e \in V.edited, text \in UNION { Envelopes(body) : body \in Typings(V.typed, MaxLinks) } :
      /\ files = V.files
      /\ content = [f \in { f \in V.files : is_md(f) } |-> IF f = e THEN text ELSE V.other]
      /\ shortest_mode \in { "vault", "relative" }
      /\ R = NoResolver
      /\ all_md = <<>>
      /\ items = <<>>
      /\ log = <<>>
      /\ output = None
      /\ pc = "start"
      /\ initial = content
      /\ earlier = <<>>

\* build_metadata, lines 100-102: the index, then the enumeration of the notes
Scan ==
  /\ pc = "start"
  /\ R' = NewResolver
  /\ all_md' \in RGlobOrders(ROOT)
  /\ pc' = "files"
  /\ UNCHANGED << files, content, shortest_mode, items, log, output, initial, earlier >>

\* a process_file that writes every note back
ShouldWriteAlways(norm, body0) == TRUE

\* line 22: the file is written when the body changed
ShouldWrite(norm, body0) == norm # body0

\* process_file(p, R), lines 13-97
ProcessNorm(p, original, body0, norm) ==
  /\ log' = Append(log, [p |-> p, original |-> original, norm |-> norm,
                         wrote |-> norm # RAISED /\ ShouldWrite(norm, body0)])
  /\ IF norm = RAISED
     THEN /\ pc' = "raised"
          /\ UNCHANGED << content, items >>
     ELSE /\ content' = IF ShouldWrite(norm, body0)
                        THEN [content EXCEPT ![p] = new_text(original, norm)]
                        ELSE content
          /\ IF links_raise(p, norm)
             THEN pc' = "raised" /\ UNCHANGED items
             ELSE pc' = "files" /\ items' = Append(items, item_of(p, links_of(p, norm)))
ProcessText(p, original, body0) == ProcessNorm(p, original, body0, normalize(p, body0))
process_file_shared(p) == ProcessText(p, content[p], body_of(content[all_md[1]]))
process_file(p) == ProcessText(p, content[p], body_of(content[p]))

\* the next note of all_md, line 104
ProcessFile ==
  /\ pc = "files"
  /\ Len(log) < Len(all_md)
  /\ process_file(all_md[Len(log) + 1])
  /\ UNCHANGED << files, shortest_mode, R, all_md, output, initial, earlier >>

\* build_metadata, lines 106-127: the backlinks and the metadata document
Finish ==
  /\ pc = "files"
  /\ Len(log) = Len(all_md)
  /\ items' = with_backlinks(items)
  /\ output' = items'
  /\ pc' = "done"
  /\ UNCHANGED << files, content, shortest_mode, R, all_md, log, initial, earlier >>

Next == Scan \/ ProcessFile \/ Finish

Spec == Init /\ [][Next]_vars

\* build_metadata called again with the other --shortest, on a copy of the
\* vault as it was before the run in vault mode
RunOtherMode ==
  /\ pc = "done"
  /\ shortest_mode = "vault"
  /\ earlier = <<>>
  /\ earlier' = output
  /\ content' = initial
  /\ shortest_mode' = "relative"
  /\ R' = NoResolver
  /\ all_md' = <<>>
  /\ items' = <<>>
  /\ log' = <<>>
  /\ output' = None
  /\ pc' = "start"
  /\ UNCHANGED << files, initial >>

NextModes == Scan \/ ProcessFile \/ Finish \/ RunOtherMode

SpecModes == Init /\ [][NextModes]_vars

\* a second run of build_metadata on the vault the first run left, in the
\* same mode
RunAgain ==
  /\ pc = "done"
  /\ earlier = <<>>
  /\ earlier' = output
  /\ R' = NoResolver
  /\ all_md' = <<>>
  /\ items' = <<>>
  /\ log' = <<>>
  /\ output' = None
  /\ pc' = "start"
  /\ UNCHANGED << files, content, shortest_mode, initial >>

NextAgain == Scan \/ ProcessFile \/ Finish \/ RunAgain

SpecAgain == Init /\ [][NextAgain]_vars

\* ------------------------------------------------------------------------
\* properties
\* ------------------------------------------------------------------------

\* the processed notes whose two passes returned a body
Normalized == { i \in 1..Len(log) : log[i].norm # RAISED }

\* C1: the two passes applied to their own output return it unchanged, in
\* either shortest mode, for every note the run has normalized.
C1_Idempotent ==
  \A i \in Normalized : normalize(log[i].p, log[i].norm) = log[i].norm

\* the frontmatter block of a text: every character up to and including the
\* closing delimiter line and its line break
FrontBlock(text) ==
  JoinWith(SubSeq(splitlines(text), 1, body_start(text)), "\n") \o << "\n" >>

\* C2: a rewritten note that has a frontmatter block holds that block exactly,
\* followed by the normalized body.
C2_FrontmatterPreserved ==
  \A i \in Normalized :
    (log[i].wrote /\ body_start(log[i].original) > 0)
      => content[log[i].p] = FrontBlock(log[i].original) \o log[i].norm

\* C3: a note whose normalized body equals its original body is not written,
\* and holds after the run the text it held before.
C3_WrittenOnlyIfChanged ==
  \A i \in Normalized :
    log[i].norm = body_of(log[i].original)
      => ~log[i].wrote /\ content[log[i].p] = log[i].original

\* a finished run that left one note with links alone and rewrote another
C3_Witness ==
  /\ pc = "done"
  /\ \E i \in Normalized :
       /\ log[i].norm = body_of(log[i].original)
       /\ WikiFindIter(log[i].norm, 1) # <<>>
       /\ content[log[i].p] = log[i].original
  /\ \E j \in Normalized : log[j].wrote

\* the root-relative path of a note, without its extension
NoExt(f) == strip_md_ext(rel_from_root(f))

\* the notes of the index
Notes == { R.ALL_MD[i] : i \in 1..Len(R.ALL_MD) }

\* C4: in vault mode the reference of a note that shares its basename with
\* another note tells the two apart, and find_target_path takes it back to the
\* note's path without extension from every note of the vault.
C4_UniquenessRoundTrip ==
  shortest_mode = "vault" =>
    \A f \in Notes, g \in Notes :
      (f # g /\ StemOfName(f[Len(f)]) = StemOfName(g[Len(g)])) =>
        LET ref == shortest_suffix_from_vault(NoExt(f))
        IN /\ ref # NoExt(g)
           /\ ~EndsWith(NoExt(g), << "/" >> \o ref)
           /\ \A cur \in Notes : find_target_path(cur, ref) = NoExt(f)

\* C5: the target of every link entry of the metadata is an item of the
\* metadata, and that item has a backlink from the linking note.
C5_BacklinkSymmetry ==
  pc = "done" =>
    \A a \in 1..Len(output) : \A k \in 1..Len(output[a].links) :
      \E b \in 1..Len(output) :
        /\ output[b].relativePath = output[a].links[k].relativePath
        /\ \E n \in 1..Len(output[b].backlinks) :
             output[b].backlinks[n].relativePath = output[a].relativePath

\* the root-relative path names a file of the vault with a Markdown extension
NoteFile(rel) ==
  /\ Exists(ROOT \o PathOf(rel).parts)
  /\ Resolve(ROOT \o PathOf(rel).parts) \in files
  /\ is_md(Resolve(ROOT \o PathOf(rel).parts))

\* a wikilink to an attachment: an embed, or a target with an asset extension
Attachment(m) ==
  \/ m.bang = << "!" >>
  \/ Lower(Suffix(PathOf(Strip(Before(Before(m.body, "|"), "#"))))) \in ASSET_EXTS

\* the wikilinks of a text
WikiLinks(text) == { WikiFindIter(text, 1)[k] : k \in 1..Len(WikiFindIter(text, 1)) }

\* C6: the relativePath of every link entry names an existing note file, and
\* no entry is made for a wikilink to an attachment.
C6_LinkEntryInvariant ==
  /\ \A n \in 1..Len(items) : \A k \in 1..Len(items[n].links) :
       NoteFile(items[n].links[k].relativePath)
  /\ \A i \in Normalized : \A m \in WikiLinks(log[i].norm) :
       (Attachment(m) /\ ~WikiEntryRaises(log[i].p, m)) => WikiEntry(log[i].p, m) = <<>>

\* C7: whatever is typed as a note link, find_target_path and
\* resolve_target_for_text_and_meta return a value, and the run goes on.
C7_NeverRaises ==
  /\ pc # "raised"
  /\ pc # "start" =>
       \A f \in DOMAIN content : \A m \in WikiLinks(body_of(content[f])) :
         m.bang # << "!" >> =>
           /\ find_target_path(f, Before(m.body, "|")) # RAISED
           /\ resolve_target_for_text_and_meta(f, m.body) # RAISED

\* the typed target of a wikilink, without alias and anchor
TargetOf(m) == Strip(Before(Before(m.body, "|"), "#"))

\* a text without the Markdown extension at its end
TextNoExt(t) ==
  IF \E e \in MD_EXTS : EndsWith(Lower(t), e)
  THEN SubSeq(t, 1, Len(t) - Len(CHOOSE e \in MD_EXTS : EndsWith(Lower(t), e)))
  ELSE t

\* the target is no path from the note's directory, and its basename is the
\* name of no note or of several
Degrades(p, target) ==
  /\ target # <<>>
  /\ ~Exists(Resolve(Parent(p) \o Candidate(PathOf(target)).parts))
  /\ Len(Dedup(IndexGet(Name(PathOf(target)))
               \o IndexGet(strip_md_ext(Name(PathOf(target)))))) # 1

\* the wikilink with its target less a Markdown extension
ExtStripped(m) ==
  << "[", "[" >> \o TextNoExt(TargetOf(m))
    \o (IF Has(Before(m.body, "|"), "#") THEN << "#" >> \o After(Before(m.body, "|"), "#") ELSE <<>>)
    \o (IF Has(m.body, "|") THEN << "|" >> \o After(m.body, "|") ELSE <<>>)
    \o << "]", "]" >>

\* C8: a note wikilink whose target is found neither from the note's
\* directory nor by a single basename match keeps its text, a Markdown
\* extension apart.
C8_LiteralDegradation ==
  \A i \in 1..Len(log) : \A m \in WikiLinks(body_of(log[i].original)) :
    (m.bang # << "!" >> /\ Degrades(log[i].p, TargetOf(m)))
      => WikiRepl(log[i].p, m) \in { m.all, ExtStripped(m) }

\* C9: the metadata has one item for every note of the resolver's sorted scan,
\* in that order.
C9_ItemsInScanOrder ==
  pc = "done" =>
    /\ Len(output) = Len(R.ALL_MD)
    /\ \A k \in 1..Len(output) : output[k].relativePath = rel_from_root(R.ALL_MD[k])

\* the notes a target resolves to: those whose path without extension
\* find_target_path returns
ResolvedNotes(p, target) == { f \in Notes : NoExt(f) = find_target_path(p, target) }

\* C10: when a note wikilink resolves to one existing note, the metadata path
\* is that note's root-relative path with its own extension, and the note's
\* item has a link entry with that path.
C10_ExtensionRestored ==
  \A i \in Normalized : \A m \in WikiLinks(log[i].norm) : \A f \in Notes :
    (/\ m.bang # << "!" >>
     /\ ~links_raise(log[i].p, log[i].norm)
     /\ ResolvedNotes(log[i].p, TargetOf(m)) = { f })
      => /\ resolve_target_for_text_and_meta(log[i].p, m.body)[2] = rel_from_root(f)
         /\ \E k \in 1..Len(links_of(log[i].p, log[i].norm)) :
              links_of(log[i].p, log[i].norm)[k].relativePath = rel_from_root(f)

\* the item of a metadata document for a note
ItemAt(doc, rel) == doc[CHOOSE k \in 1..Len(doc) : doc[k].relativePath = rel]

\* the relativePath values of an item's links, in order
LinkPaths(item) == [k \in 1..Len(item.links) |-> item.links[k].relativePath]

\* how many backlinks of an item come from a note
BacklinkCount(item, src) ==
  Cardinality({ n \in 1..Len(item.backlinks) : item.backlinks[n].relativePath = src })

\* C11: a run in relative mode gives every item the links (relativePath
\* values) and the backlinks that the run in vault mode on the same vault
\* gave it.
C11_ModeIndependence ==
  (pc = "done" /\ earlier # <<>>) =>
    \A k \in 1..Len(output) :
      /\ LinkPaths(output[k]) = LinkPaths(ItemAt(earlier, output[k].relativePath))
      /\ \A j \in 1..Len(output) :
           BacklinkCount(output[k], output[j].relativePath)
             = BacklinkCount(ItemAt(earlier, output[k].relativePath), output[j].relativePath)

\* the anchor and the alias typed in a wikilink body
AnchorIn(body) == After(Before(body, "|"), "#")
AliasIn(body) == After(body, "|")

\* a note wikilink [[target#anchor|alias]] with a target and an anchor
Anchored(m) ==
  /\ m.bang # << "!" >>
  /\ Has(m.body, "|")
  /\ TargetOf(m) # <<>>
  /\ AnchorIn(m.body) # <<>>

\* the body of a wikilink text: what stands between "[[" and "]]"
InnerOf(wikilink) == SubSeq(wikilink, 3, Len(wikilink) - 2)

\* the anchor and alias of every such wikilink of a text, in order
RECURSIVE AnchorAliasPairs(_)
AnchorAliasPairs(ms) ==
  IF ms = <<>> THEN <<>>
  ELSE (IF Anchored(ms[1]) THEN << << AnchorIn(ms[1].body), AliasIn(ms[1].body) >> >> ELSE <<>>)
       \o AnchorAliasPairs(Tail(ms))

\* C12: a note wikilink [[target#anchor|alias]] is normalized to
\* [[resolved#anchor|alias]]: the anchor and the alias are the ones typed,
\* whether or not the target is rewritten.
C12_AnchorAliasPreserved ==
  \A i \in Normalized :
    /\ \A m \in WikiLinks(body_of(log[i].original)) :
         Anchored(m) =>
           /\ StartsWith(WikiRepl(log[i].p, m), << "[", "[" >>)
           /\ EndsWith(WikiRepl(log[i].p, m), << "]", "]" >>)
           /\ TargetOf([body |-> InnerOf(WikiRepl(log[i].p, m))]) # <<>>
           /\ AnchorIn(InnerOf(WikiRepl(log[i].p, m))) = AnchorIn(m.body)
           /\ AliasIn(InnerOf(WikiRepl(log[i].p, m))) = AliasIn(m.body)
    /\ AnchorAliasPairs(WikiFindIter(log[i].norm, 1))
         = AnchorAliasPairs(WikiFindIter(body_of(log[i].original), 1))

\* a finished run that rewrote the target of a wikilink with anchor and alias
\* in a note
C12_Witness ==
  /\ pc = "done"
  /\ \E i \in Normalized : \E m \in WikiLinks(body_of(log[i].original)) :
       /\ Anchored(m)
       /\ WikiRepl(log[i].p, m) # m.all
       /\ log[i].wrote

\* the Markdown links of a text
MdLinks(text) == { MdFindIter(text, 1)[k] : k \in 1..Len(MdFindIter(text, 1)) }

\* the url has a scheme that ends at index j: a letter, then letters, digits,
\* "+", "." or "-", then ":"
SchemeAt(url, j) ==
  /\ 1 < j /\ j <= Len(url)
  /\ url[1] \in Letters
  /\ \A k \in 2..(j - 1) : url[k] \in Letters \cup { "+", ".", "-" }
  /\ url[j] = ":"

\* the url starts with scheme:// or with //
SlashedPrefix(url) ==
  \/ StartsWith(url, << "/", "/" >>)
  \/ \E j \in 2..Len(url) : SchemeAt(url, j) /\ StartsWith(SubSeq(url, j + 1, Len(url)), << "/", "/" >>)

\* the url starts with scheme: or with //
SchemePrefix(url) ==
  \/ StartsWith(url, << "/", "/" >>)
  \/ \E j \in 2..Len(url) : SchemeAt(url, j)

\* the Markdown link is to an attachment: an image link, or a url with an
\* asset extension
AttachmentUrl(m) ==
  m.bang = << "!" >> \/ Lower(Suffix(PathOf(Strip(m.url)))) \in ASSET_EXTS

\* the replacement is a wikilink: ![[...]] for an attachment, [[...]] for a note
ReplacedByWikilink(m, r) ==
  /\ r # m.all
  /\ EndsWith(r, << "]", "]" >>)
  /\ IF AttachmentUrl(m) THEN StartsWith(r, << "!", "[", "[" >>) ELSE StartsWith(r, << "[", "[" >>)

RECURSIVE CodeSpansFrom(_, _)
CodeSpansFrom(text, i) ==
  IF i > Len(text) THEN <<>>
  ELSE IF text[i] = BackTick /\ FirstFrom(text, BackTick, i + 1) > i + 1
       THEN << SubSeq(text, i, FirstFrom(text, BackTick, i + 1)) >>
              \o CodeSpansFrom(text, FirstFrom(text, BackTick, i + 1) + 1)
  ELSE CodeSpansFrom(text, i + 1)

\* CodeMasker.mask: the text with a placeholder in the place of every span
RECURSIVE MaskFrom(_, _)
MaskFrom(text, i) ==
  IF i > Len(text) THEN <<>>
  ELSE IF text[i] = BackTick /\ FirstFrom(text, BackTick, i + 1) > i + 1
       THEN << " " >> \o MaskFrom(text, FirstFrom(text, BackTick, i + 1) + 1)
  ELSE << text[i] >> \o MaskFrom(text, i + 1)

\* C14: the code spans of a note body are the same text after the run, and
\* the note's link entries are those of the body with its code spans masked:
\* a link inside a code span is neither rewritten nor emitted.
C14_CodeSpansProtected ==
  \A i \in Normalized :
    /\ CodeSpansFrom(log[i].norm, 1) = CodeSpansFrom(body_of(log[i].original), 1)
    /\ ~links_raise(log[i].p, log[i].norm)
         => links_of(log[i].p, log[i].norm) = links_of(log[i].p, MaskFrom(log[i].norm, 1))

\* C15: an item that some link entries name has one backlink for every note
\* that links to it, no note twice, and every backlink's link and displayText
\* are the item's own stem.
C15_BacklinksPerSource ==
  pc = "done" =>
    \A b \in 1..Len(output) :
      /\ \A a \in 1..Len(output) :
           BacklinkCount(output[b], output[a].relativePath)
             = IF \E k \in 1..Len(output[a].links) :
                    output[a].links[k].relativePath = output[b].relativePath
               THEN 1 ELSE 0
      /\ \A n \in 1..Len(output[b].backlinks) :
           /\ output[b].backlinks[n].link = Stem(PathOf(output[b].relativePath))
           /\ output[b].backlinks[n].displayText = Stem(PathOf(output[b].relativePath))

\* the vault files that match an attachment's basename: the files of that
\* name, or, for a name without a dot, of that name with an asset extension
Matching(name) ==
  { f \in UnderRoot :
      \/ f[Len(f)] = name
      \/ ~Has(name, ".") /\ \E ext \in ASSET_EXTS : f[Len(f)] = name \o ext }

\* the basename typed in an attachment target
AssetName(raw) == Name(PathOf(Strip(Before(raw, "|"))))

\* candidate c comes before candidate d for the note p: the note's directory
\* first, then the shorter relative path, then the lexicographically smaller
Preferred(p, c, d) ==
  \/ Parent(c) = Parent(p) /\ Parent(d) # Parent(p)
  \/ /\ (Parent(c) = Parent(p)) = (Parent(d) = Parent(p))
     /\ \/ Len(to_rel(Parent(p), c)) < Len(to_rel(Parent(p), d))
        \/ /\ Len(to_rel(Parent(p), c)) = Len(to_rel(Parent(p), d))
           /\ StrLess(to_rel(Parent(p), c), to_rel(Parent(p), d))

\* the path as emitted: "./" before a path that holds "/" and starts with
\* neither "./" nor "../"
Emitted(rel) ==
  IF Has(rel, "/") /\ ~StartsWith(rel, << ".", "/" >>) /\ ~StartsWith(rel, << ".", ".", "/" >>)
  THEN << ".", "/" >> \o rel
  ELSE rel

\* the result is the emitted path, from the note's directory, of the
\* candidate that comes before all others
BestMatch(p, raw, result) ==
  \E c \in Matching(AssetName(raw)) :
    /\ \A d \in Matching(AssetName(raw)) \ { c } : Preferred(p, c, d)
    /\ result = Emitted(to_rel(Parent(p), c))

\* the embeds of a text with a target that names vault files
Embeds(text) ==
  { m \in WikiLinks(text) :
      /\ m.bang = << "!" >>
      /\ Strip(Before(m.body, "|")) # <<>>
      /\ Matching(AssetName(m.body)) # {} }

\* C16: for an attachment whose basename matches vault files,
\* resolve_asset_for_text returns the path from the note's directory of the
\* candidate that is first in the ranking, with "./" before a path into a
\* subdirectory; the embed is rewritten to that path.
C16_AssetResolution ==
  \A i \in 1..Len(log) : \A m \in Embeds(body_of(log[i].original)) :
    /\ BestMatch(log[i].p, m.body, resolve_asset_for_text(log[i].p, Before(m.body, "|")))
    /\ \E r \in { Emitted(to_rel(Parent(log[i].p), c)) : c \in Matching(AssetName(m.body)) } :
         /\ BestMatch(log[i].p, m.body, r)
         /\ WikiRepl(log[i].p, m)
              = << "!", "[", "[" >> \o r
                  \o (IF Has(m.body, "|") THEN << "|" >> \o After(m.body, "|") ELSE <<>>)
                  \o << "]", "]" >>

\* a finished run that rewrote, in a note of a subdirectory, an embed with
\* several candidates, none in the note's directory, to a path with "./"
C16_Witness ==
  /\ pc = "done"
  /\ \E i \in Normalized : \E m \in Embeds(body_of(log[i].original)) :
       /\ Len(log[i].p) > Len(ROOT) + 1
       /\ Cardinality(Matching(AssetName(m.body))) > 1
       /\ \A c \in Matching(AssetName(m.body)) : Parent(c) # Parent(log[i].p)
       /\ StartsWith(resolve_asset_for_text(log[i].p, Before(m.body, "|")), << ".", "/" >>)
       /\ log[i].wrote

\* the file a url names from the directory of the note p
UrlFile(p, url) == Resolve(Parent(p) \o PathOf(url).parts)

\* a Markdown link of the note p to an existing note file of the vault
LinksNote(p, m) ==
  /\ m.bang # << "!" >>
  /\ ~Has(Strip(m.url), "#")
  /\ ~SchemePrefix(Strip(m.url))
  /\ ~PathOf(Strip(m.url)).abs
  /\ UrlFile(p, Strip(m.url)) \in UnderRoot
  /\ is_md(UrlFile(p, Strip(m.url)))

\* C17: when a note has a Markdown link whose url names, from the note's
\* directory, an existing note T, the finished run gives the note's item a
\* link entry with T's stem and T's root-relative path, and T's item a
\* backlink from the note.
C17_LinkCapture ==
  pc = "done" =>
    \A i \in 1..Len(log) : \A m \in MdLinks(body_of(log[i].original)) :
      LinksNote(log[i].p, m) =>
        /\ \E k \in 1..Len(ItemAt(output, rel_from_root(log[i].p)).links) :
             /\ ItemAt(output, rel_from_root(log[i].p)).links[k].relativePath
                  = rel_from_root(UrlFile(log[i].p, Strip(m.url)))
             /\ ItemAt(output, rel_from_root(log[i].p)).links[k].link
                  = Stem(PathOf(rel_from_root(UrlFile(log[i].p, Strip(m.url)))))
        /\ BacklinkCount(ItemAt(output, rel_from_root(UrlFile(log[i].p, Strip(m.url)))),
                         rel_from_root(log[i].p)) > 0

\* the indexed files that share the basename or the stem of the note T
Sharing(T) ==
  { f \in Notes : { f[Len(f)], StemOfName(f[Len(f)]) }
                    \cap { T[Len(T)], StemOfName(T[Len(T)]) } # {} }

\* the suffix of the last k segments of a root-relative path
LastSegments(rel, k) ==
  AsPosix([abs |-> FALSE,
           parts |-> SubSeq(PathOf(rel).parts, Len(PathOf(rel).parts) - k + 1, Len(PathOf(rel).parts))])

\* the acceptance test: T is the one file, among those sharing its name,
\* whose path without extension ends with the suffix
Accepted(T, sfx) ==
  { f \in Sharing(T) : NoExt(f) = sfx \/ EndsWith(NoExt(f), << "/" >> \o sfx) } = { T }

\* the segment counts of the accepted suffixes of T
AcceptedCounts(T) ==
  { k \in 2..Len(PathOf(NoExt(T)).parts) : Accepted(T, LastSegments(NoExt(T), k)) }

\* C18: in vault mode the reference of a note directly under the root is its
\* stem; of another note it is the suffix of the fewest segments, two at
\* least, that the acceptance test takes, and the whole root-relative path
\* when the test takes none.
C18_ShortestSuffix ==
  pc # "start" =>
    \A T \in Notes :
      shortest_suffix_from_vault(NoExt(T)) =
        IF Len(PathOf(NoExt(T)).parts) = 1 THEN StemOfName(T[Len(T)])
        ELSE IF AcceptedCounts(T) = {} THEN NoExt(T)
        ELSE LastSegments(NoExt(T), CHOOSE k \in AcceptedCounts(T) : \A j \in AcceptedCounts(T) : k <= j)

\* the entries process_file collected for the i-th item: the wikilink
\* entries, then the entries of the pure-anchor Markdown links
Collected(i) ==
  WikiEntries(log[i].p, WikiFindIter(log[i].norm, 1))
    \o AnchorEntries(rel_from_root(log[i].p), MdFindIter(log[i].norm, 1))

\* where the key of the entry L is first seen in the collected sequence
FirstAt(coll, L) ==
  CHOOSE k \in 1..Len(coll) : SameKey(coll[k], L) /\ \A j \in 1..(k - 1) : ~SameKey(coll[j], L)

Deduplicated(coll, ls) ==
  /\ \A a, b \in 1..Len(ls) : a # b => ~SameKey(ls[a], ls[b])
  /\ \A k \in 1..Len(coll) : \E a \in 1..Len(ls) : SameKey(ls[a], coll[k])
  /\ \A a \in 1..Len(ls) :
       \E k \in 1..Len(coll) : coll[k] = ls[a] /\ \A j \in 1..(k - 1) : ~SameKey(coll[j], ls[a])
  /\ \A a, b \in 1..Len(ls) : a < b => FirstAt(coll, ls[a]) < FirstAt(coll, ls[b])

\* C19: the links of every item hold one entry for every triple (link,
\* relativePath, displayText) of the collected entries, the first one
\* collected, in the order in which the triples were first collected.
C19_LinkEntriesDeduplicated ==
  \A i \in 1..Len(items) : Deduplicated(Collected(i), items[i].links)

\* an item whose note repeats a link, one entry of which was dropped
C19_Witness ==
  \E i \in 1..Len(items) : Len(items[i].links) >= 1 /\ Len(Collected(i)) > Len(items[i].links)

\* what process_file makes of the note f as it was before the run
NormOf(f) == normalize(f, body_of(initial[f]))

\* the step of the log that processed the note f
StepOf(f) == CHOOSE i \in 1..Len(log) : log[i].p = f

\* the content of the note f depends on its own text before the run alone
OwnContent(f) ==
  IF \E i \in 1..Len(log) : log[i].p = f
  THEN /\ log[StepOf(f)].original = initial[f]
       /\ log[StepOf(f)].norm = NormOf(f)
       /\ content[f] = IF log[StepOf(f)].wrote THEN new_text(initial[f], NormOf(f)) ELSE initial[f]
  ELSE content[f] = initial[f]

\* the item of process_file, without the backlinks build_metadata adds later
OwnItem(i) ==
  [items[i] EXCEPT !.backlinks = <<>>]
    = item_of(log[i].p, links_of(log[i].p, NormOf(log[i].p)))

\* C20: in whatever order the notes are processed, the content of every note
\* and the item process_file returns for it are those computed from the
\* index and the note's own text before the run; a note not yet processed is
\* as it was, whatever has been rewritten before.
C20_PerFileIndependence ==
  /\ \A f \in DOMAIN content : OwnContent(f)
  /\ \A i \in 1..Len(items) : OwnItem(i)

\* a note processed after a note it links to was rewritten
C20_Witness ==
  \E i, j \in 1..Len(items) :
    /\ i < j
    /\ log[i].wrote
    /\ \E k \in 1..Len(items[j].links) : items[j].links[k].relativePath = rel_from_root(log[i].p)

\* the backlinks of an item, whatever their order
BacklinkSet(item) == { item.backlinks[k] : k \in 1..Len(item.backlinks) }

\* the item of a note is the same in two metadata documents
SameItem(doc, old, rel) ==
  /\ ItemAt(doc, rel).fileName = ItemAt(old, rel).fileName
  /\ ItemAt(doc, rel).links = ItemAt(old, rel).links
  /\ BacklinkSet(ItemAt(doc, rel)) = BacklinkSet(ItemAt(old, rel))

\* C21: a second run on the vault the first run left, in the same mode,
\* writes no note and gives every note the item the first run gave it.
C21_RunLevelStability ==
  earlier # <<>> =>
    /\ \A i \in 1..Len(log) : ~log[i].wrote
    /\ pc # "raised"
    /\ pc = "done" =>
         /\ Len(output) = Len(earlier)
         /\ \A n \in 1..Len(earlier) : SameItem(output, earlier, earlier[n].relativePath)

\* the relativePath values of the items of a metadata document
ItemPaths(doc) == { doc[n].relativePath : n \in 1..Len(doc) }

\* C22: in the metadata document of a finished run the relativePath of every
\* link entry is the relativePath of an item of the document.
C22_ClosedGraph ==
  pc = "done" =>
    \A n \in 1..Len(output) : \A k \in 1..Len(output[n].links) :
      output[n].links[k].relativePath \in ItemPaths(output)
====
